---- MODULE Spec2Model ----
(***************************************************************************)
(* Model of src/draw/nxp/g2d/lv_g2d_buf_map.c: the G2D buffer map, a hash  *)
(* table from a buffer address (key) to a g2d_buf (value) with one primary *)
(* slot per bucket (table->items) and one overflow chain per bucket        *)
(* (table->overflow_list).                                                 *)
(*                                                                         *)
(* Addresses.  A key is the number of its address.  A g2d_buf is numbered  *)
(* by the call of lv_insert_buf_map that handed it in (1, 2, ...), so two  *)
(* calls never hand in the same buffer.  A chain node (lv_list_t) is       *)
(* numbered in the order of allocation.  An lv_map_item_t is held by value *)
(* in the slot or node that points to it: the code never keeps two         *)
(* pointers to one item.                                                   *)
(*                                                                         *)
(* Undefined behaviour.  lv_malloc does not clear memory, so a field the   *)
(* code reads before writing it holds any value: NULL, the address of a    *)
(* node, or an address that is no node at all (WILD).  Reading through     *)
(* NULL or WILD ends the process (status "fault").  Reading or writing a   *)
(* node that was passed to lv_free either sees the fields the code left    *)
(* there or ends the process; both outcomes are steps of the model.  A     *)
(* loop that follows links round a cycle never returns (status "hang").    *)
(* lv_malloc is taken to succeed.                                          *)
(***************************************************************************)
EXTENDS Integers, Sequences, FiniteSets, TLC

\* Number of buckets.  The source fixes 50 (line 23); the model scales it
\* down so that a full table is reachable.
HASH_TABLE_SIZE == 2

\* Number of calls of lv_insert_buf_map in one run (each hands in a fresh
\* g2d_buf, and allocates at most one chain node).
MaxInserts == 4

NULL == 0
WILD == -1

\* Key addresses the callers use: 0x12, 0x21, 0x30 (same characters in "%p"
\* text up to order, hence the same bucket for every table size) and 0x13.
Keys == {18, 33, 48, 19}

Values == 1..MaxInserts
NodeIds == 1..MaxInserts
Indexes == 0..(HASH_TABLE_SIZE - 1)

\* (lv_map_item_t *) NULL, and an item {key, value}.
NULL_ITEM == [key |-> NULL, value |-> NULL]
Item(key, value) == [key |-> key, value |-> value]

VARIABLES
    items,          \* table->items[i]: the item of the primary slot, or NULL_ITEM
    overflow_list,  \* table->overflow_list[i]: address of the first chain node
    count,          \* table->count
    heap,           \* chain nodes by address: [item, next, st]
    key_live,       \* key_live[k]: the allocation at address k has not been lv_free'd
    g2d_freed,      \* g2d_freed[v]: number of calls g2d_free(v)
    status,         \* "alive", "destroyed", "fault" or "hang"
    last,           \* the last call: [op, key, value, path, ret]
    handed,         \* number of calls of lv_insert_buf_map so far
    removed,        \* number of items released by calls of lv_free_item
    stored          \* stored[k]: value of the last insert of k not followed by lv_free_item(k)

vars == <<items, overflow_list, count, heap, key_live, g2d_freed, status, last,
          handed, removed, stored>>

----------------------------------------------------------------------------
(* _map_hash_function: sprintf("%p") and the sum of the characters.        *)

\* Character code of one hexadecimal digit: '0'..'9' are 48..57, 'a'..'f' are 97..102.
HexDigitCode(d) == IF d < 10 THEN 48 + d ELSE 87 + d

RECURSIVE HexCodes(_)
HexCodes(n) ==
    IF n < 16 THEN <<HexDigitCode(n)>>
    ELSE Append(HexCodes(n \div 16), HexDigitCode(n % 16))

\* The text of "%p": "0x" and the hexadecimal digits of the address.
PtrText(ptr) == <<48, 120>> \o HexCodes(ptr)

RECURSIVE SumCodes(_)
SumCodes(str) == IF str = <<>> THEN 0 ELSE Head(str) + SumCodes(Tail(str))

_map_hash_function(ptr) == SumCodes(PtrText(ptr)) % HASH_TABLE_SIZE

----------------------------------------------------------------------------
(* The memory the operations work on, as one record, so that an operation  *)
(* is a function from memory to memory.  st is "ok", "fault" or "hang";    *)
(* uaf records that a freed node was read or written on the way.           *)

Mem == [items |-> items, overflow_list |-> overflow_list, count |-> count,
        heap |-> heap, key_live |-> key_live, g2d_freed |-> g2d_freed,
        st |-> "ok", uaf |-> FALSE]

IsNode(p) == p \in NodeIds
Fault(m) == [m EXCEPT !.st = "fault"]
Hang(m) == [m EXCEPT !.st = "hang"]

\* Reading or writing node p: note when p was freed before.
Touch(m, p) == [m EXCEPT !.uaf = @ \/ m.heap[p].st = "freed"]

\* Address of the next node lv_malloc returns.
NewNode(m) == Cardinality({n \in NodeIds : m.heap[n].st # "unalloc"}) + 1

\* _map_free_item: lv_free(item->key); g2d_free(item->value); lv_free(item).
_map_free_item(m, item) ==
    [m EXCEPT !.key_live[item.key] = FALSE,
              !.g2d_freed[item.value] = @ + 1]

\* _list_free: walks the list and releases every node with its item.
RECURSIVE _list_free(_, _)
_list_free(m, list) ==
    IF list = NULL THEN m
    ELSE IF ~IsNode(list) THEN Fault(m)
    ELSE LET temp == m.heap[list]
             m1 == Touch(m, list)
         IN  IF temp.item = NULL_ITEM THEN Fault(m1)
             ELSE _list_free(
                     [_map_free_item(m1, temp.item) EXCEPT
                         !.heap[list] = [item |-> NULL_ITEM, next |-> temp.next,
                                         st |-> "freed"]],
                     temp.next)

----------------------------------------------------------------------------
(* lv_create_buf_map *)

Init ==
    /\ items = [i \in Indexes |-> NULL_ITEM]
    /\ overflow_list = [i \in Indexes |-> NULL]
    /\ count = 0
    /\ heap = [n \in NodeIds |-> [item |-> NULL_ITEM, next |-> NULL, st |-> "unalloc"]]
    /\ key_live = [k \in Keys |-> FALSE]
    /\ g2d_freed = [v \in Values |-> 0]
    /\ status = "alive"
    /\ last = [op |-> "create", key |-> NULL, value |-> NULL, path |-> "create",
               ret |-> NULL]
    /\ handed = 0
    /\ removed = 0
    /\ stored = [k \in Keys |-> NULL]

----------------------------------------------------------------------------
(* Chain insertion: _list_alloc, _list_insert, _handle_collision. *)

\* _list_alloc followed by the assignments of item and next.
_list_alloc(m, node, item, next) ==
    [m EXCEPT !.heap[node] = [item |-> item, next |-> next, st |-> "live"]]

\* The loop of _list_insert, `while(temp->next->next) temp = temp->next`,
\* entered with temp->next # NULL: yields the temp it stops at.
RECURSIVE _list_insert_walk(_, _, _)
_list_insert_walk(m, temp, fuel) ==
    LET nx == m.heap[temp].next
    IN  IF ~IsNode(nx) THEN [m |-> Fault(m), temp |-> temp]
        ELSE LET m1 == Touch(m, nx)
             IN  IF m1.heap[nx].next = NULL THEN [m |-> m1, temp |-> temp]
                 ELSE IF fuel = 0 THEN [m |-> Hang(m1), temp |-> temp]
                 ELSE _list_insert_walk(m1, nx, fuel - 1)

\* _list_insert: the memory afterwards and the returned list.
_list_insert(m, list, item) ==
    LET node == NewNode(m)
    IN  IF list = NULL
        THEN [m |-> _list_alloc(m, node, item, NULL), ret |-> node]
        ELSE IF ~IsNode(list) THEN [m |-> Fault(m), ret |-> list]
        ELSE IF m.heap[list].next = NULL
        THEN [m |-> [_list_alloc(Touch(m, list), node, item, NULL) EXCEPT
                        !.heap[list].next = node],
              ret |-> list]
        ELSE LET w == _list_insert_walk(Touch(m, list), list, MaxInserts)
             IN  IF w.m.st # "ok" THEN [m |-> w.m, ret |-> list]
                 ELSE [m |-> [_list_alloc(w.m, node, item, NULL) EXCEPT
                                 !.heap[w.temp].next = node],
                       ret |-> list]

\* Values the uninitialised `next` of a node fresh from lv_malloc can hold.
Garbage(m) == {NULL, WILD} \cup {n \in NodeIds : n <= NewNode(m)}

\* _handle_collision; garbage is what lv_malloc left in head->next.
_handle_collision(m, index, item, garbage) ==
    LET head == m.overflow_list[index]
    IN  IF head = NULL
        THEN [_list_alloc(m, NewNode(m), item, garbage) EXCEPT
                 !.overflow_list[index] = NewNode(m)]
        ELSE LET r == _list_insert(m, head, item)
             IN  IF r.m.st # "ok" THEN r.m
                 ELSE [r.m EXCEPT !.overflow_list[index] = r.ret]

----------------------------------------------------------------------------
(* lv_insert_buf_map *)

\* The branch lv_insert_buf_map takes.
InsertPath(m, key) ==
    LET index == _map_hash_function(key)
    IN  IF m.items[index] = NULL_ITEM
        THEN IF m.count = HASH_TABLE_SIZE THEN "full" ELSE "place"
        ELSE IF m.items[index].key = key THEN "update" ELSE "collision"

\* lv_insert_buf_map with the capacity test made for every key that is not
\* the primary key, not only for an empty slot.
lv_insert_buf_map_full_first(m, key, value, garbage) ==
    LET item == Item(key, value)
        index == _map_hash_function(key)
    IN  IF m.items[index] # NULL_ITEM /\ m.items[index].key = key
        THEN [m EXCEPT !.items[index].value = value]
        ELSE IF m.count = HASH_TABLE_SIZE
        THEN _map_free_item(m, item)
        ELSE IF m.items[index] = NULL_ITEM
        THEN [m EXCEPT !.items[index] = item, !.count = @ + 1]
        ELSE _handle_collision(m, index, item, garbage)

\* lv_insert_buf_map passing the value it replaces to g2d_free on update.
lv_insert_buf_map_releases_old(m, key, value, garbage) ==
    LET item == Item(key, value)
        index == _map_hash_function(key)
    IN  IF m.items[index] = NULL_ITEM
        THEN IF m.count = HASH_TABLE_SIZE
             THEN _map_free_item(m, item)
             ELSE [m EXCEPT !.items[index] = item, !.count = @ + 1]
        ELSE IF m.items[index].key = key
             THEN [m EXCEPT !.g2d_freed[m.items[index].value] = @ + 1,
                            !.items[index].value = value]
             ELSE _handle_collision(m, index, item, garbage)

\* lv_insert_buf_map with the counter taken for the number of entries: a
\* chained insert counts too.
lv_insert_buf_map_counts_chained(m, key, value, garbage) ==
    LET item == Item(key, value)
        index == _map_hash_function(key)
    IN  IF m.items[index] = NULL_ITEM
        THEN IF m.count = HASH_TABLE_SIZE
             THEN _map_free_item(m, item)
             ELSE [m EXCEPT !.items[index] = item, !.count = @ + 1]
        ELSE IF m.items[index].key = key
             THEN [m EXCEPT !.items[index].value = value]
             ELSE [_handle_collision(m, index, item, garbage) EXCEPT !.count = @ + 1]

lv_insert_buf_map(m, key, value, garbage) ==
    LET item == Item(key, value)
        index == _map_hash_function(key)
    IN  IF m.items[index] = NULL_ITEM
        THEN IF m.count = HASH_TABLE_SIZE
             THEN _map_free_item(m, item)
             ELSE [m EXCEPT !.items[index] = item, !.count = @ + 1]
        ELSE IF m.items[index].key = key
             THEN [m EXCEPT !.items[index].value = value]
             ELSE _handle_collision(m, index, item, garbage)

----------------------------------------------------------------------------
(* lv_search_buf_map: the memory afterwards (status only) and the result. *)

\* lv_search_buf_map advancing table->overflow_list[index] in place of its
\* local head.
lv_search_buf_map_moves_head(m, key) ==
    LET index == _map_hash_function(key)
        item == m.items[index]
        head == m.overflow_list[index]
    IN  IF item # NULL_ITEM
        THEN IF item.key = key THEN [m |-> m, ret |-> item.value]
             ELSE IF head = NULL THEN [m |-> m, ret |-> NULL]
             ELSE IF ~IsNode(head) THEN [m |-> Fault(m), ret |-> NULL]
             ELSE [m |-> [Touch(m, head) EXCEPT
                             !.overflow_list[index] = m.heap[head].next],
                   ret |-> NULL]
        ELSE [m |-> m, ret |-> NULL]

lv_search_buf_map(m, key) ==
    LET index == _map_hash_function(key)
        item == m.items[index]
        head == m.overflow_list[index]
    IN  IF item # NULL_ITEM
        THEN IF item.key = key THEN [m |-> m, ret |-> item.value]
             ELSE IF head = NULL THEN [m |-> m, ret |-> NULL]
             ELSE IF ~IsNode(head) THEN [m |-> Fault(m), ret |-> NULL]
             ELSE [m |-> Touch(m, head), ret |-> NULL]
        ELSE [m |-> m, ret |-> NULL]

----------------------------------------------------------------------------
(* lv_free_item *)

\* The loop `while(curr)` of lv_free_item (lines 177-199).
RECURSIVE _free_item_walk(_, _, _, _, _, _)
_free_item_walk(m, index, key, curr, prev, fuel) ==
    IF curr = NULL THEN m
    ELSE IF ~IsNode(curr) THEN Fault(m)
    ELSE LET m1 == Touch(m, curr)
             node == m.heap[curr]
         IN  IF node.item = NULL_ITEM THEN Fault(m1)
             ELSE IF node.item.key = key
             THEN IF prev = NULL
                  THEN LET m2 == _list_free(m1, m1.overflow_list[index])
                       IN  IF m2.st # "ok" THEN m2
                           ELSE [m2 EXCEPT !.overflow_list[index] = NULL]
                  ELSE LET m2 == [m1 EXCEPT !.heap[prev].next = node.next]
                           m3 == [m2 EXCEPT !.heap[curr].next = NULL]
                       IN  _list_free(m3, curr)
             ELSE IF fuel = 0 THEN Hang(m1)
             \* curr = curr->next; prev = curr;
             ELSE _free_item_walk(m1, index, key, node.next, node.next, fuel - 1)

\* The branch `item->key == key` with a chain (lines 165-175).
_free_item_promote(m, index) ==
    LET item == m.items[index]
        head == m.overflow_list[index]
        m1 == _map_free_item(m, item)
    IN  IF ~IsNode(head) THEN Fault(m1)
        ELSE LET node == m1.heap[head]
                 m2 == [Touch(m1, head) EXCEPT !.heap[head].next = NULL]
             IN  IF node.item = NULL_ITEM THEN Fault(m2)
                 ELSE LET m3 == [m2 EXCEPT !.items[index] =
                                     Item(node.item.key, node.item.value)]
                          m4 == _list_free(m3, head)
                      IN  IF m4.st # "ok" THEN m4
                          ELSE [m4 EXCEPT !.overflow_list[index] = node.next]

\* The branch lv_free_item takes.
RemovePath(m, key) ==
    LET index == _map_hash_function(key)
        item == m.items[index]
        head == m.overflow_list[index]
    IN  IF item = NULL_ITEM THEN "empty"
        ELSE IF head = NULL /\ item.key = key THEN "primary"
        ELSE IF head # NULL THEN IF item.key = key THEN "promote" ELSE "chain"
        ELSE "absent"

\* lv_free_item without the test `head == NULL`: a matching primary entry is
\* removed whether or not the bucket has a chain.
lv_free_item_ignores_chain(m, key) ==
    LET index == _map_hash_function(key)
        item == m.items[index]
        head == m.overflow_list[index]
    IN  IF item = NULL_ITEM THEN m
        ELSE IF item.key = key
        THEN [_map_free_item([m EXCEPT !.items[index] = NULL_ITEM], item) EXCEPT
                 !.count = @ - 1]
        ELSE IF head # NULL
        THEN _free_item_walk(m, index, key, head, NULL, MaxInserts)
        ELSE m

lv_free_item(m, key) ==
    LET index == _map_hash_function(key)
        item == m.items[index]
        head == m.overflow_list[index]
    IN  IF item = NULL_ITEM THEN m
        ELSE IF head = NULL /\ item.key = key
        THEN [_map_free_item([m EXCEPT !.items[index] = NULL_ITEM], item) EXCEPT
                 !.count = @ - 1]
        ELSE IF head # NULL
        THEN IF item.key = key
             THEN _free_item_promote(m, index)
             ELSE _free_item_walk(m, index, key, head, NULL, MaxInserts)
        ELSE m

----------------------------------------------------------------------------
(* lv_free_buf_map *)

\* The loop over table->items (lines 83-87), from index i on.
RECURSIVE _free_items(_, _)
_free_items(m, i) ==
    IF i = HASH_TABLE_SIZE THEN m
    ELSE _free_items(IF m.items[i] # NULL_ITEM THEN _map_free_item(m, m.items[i])
                     ELSE m,
                     i + 1)

\* _free_overflow_list: _list_free of every chain, from index i on.
RECURSIVE _free_overflow_list(_, _)
_free_overflow_list(m, i) ==
    IF i = HASH_TABLE_SIZE \/ m.st # "ok" THEN m
    ELSE _free_overflow_list(_list_free(m, m.overflow_list[i]), i + 1)

lv_free_buf_map(m) == _free_overflow_list(_free_items(m, 0), 0)

----------------------------------------------------------------------------
(* The calls as steps. *)

RECURSIVE SumTo(_, _)
SumTo(f, n) == IF n = 0 THEN 0 ELSE f[n] + SumTo(f, n - 1)

\* Number of calls of g2d_free so far.
G2dFreeCalls(f) == SumTo(f, MaxInserts)

\* The memory m becomes the state, with status st.
Commit(m, st) ==
    /\ items' = m.items
    /\ overflow_list' = m.overflow_list
    /\ count' = m.count
    /\ heap' = m.heap
    /\ key_live' = m.key_live
    /\ g2d_freed' = m.g2d_freed
    /\ status' = st

\* How a call that leaves memory m can end: it does not return when m.st is
\* "fault" or "hang"; after a use of freed memory it returns or faults;
\* otherwise it returns (the table is then `done`).
Outcomes(m, done) ==
    IF m.st # "ok" THEN {m.st}
    ELSE IF m.uaf THEN {done, "fault"}
    ELSE {done}

Outcome(m, done) == \E st \in Outcomes(m, done) : Commit(m, st)

Insert(key, garbage) ==
    /\ status = "alive"
    /\ handed < MaxInserts
    /\ LET value == handed + 1
           m0 == [Mem EXCEPT !.key_live[key] = TRUE]
       IN  /\ garbage \in Garbage(m0)
           /\ Outcome(lv_insert_buf_map(m0, key, value, garbage), "alive")
           /\ last' = [op |-> "insert", key |-> key, value |-> value,
                       path |-> InsertPath(m0, key), ret |-> NULL]
           /\ stored' = [stored EXCEPT ![key] =
                            IF InsertPath(m0, key) = "full" THEN stored[key] ELSE value]
    /\ handed' = handed + 1
    /\ UNCHANGED removed

Search(key) ==
    /\ status = "alive"
    /\ LET r == lv_search_buf_map(Mem, key)
       IN  /\ Outcome(r.m, "alive")
           /\ last' = [op |-> "search", key |-> key, value |-> NULL,
                       path |-> "search", ret |-> r.ret]
    /\ UNCHANGED <<handed, removed, stored>>

FreeItem(key) ==
    /\ status = "alive"
    /\ LET m == lv_free_item(Mem, key)
       IN  /\ Outcome(m, "alive")
           /\ last' = [op |-> "free_item", key |-> key, value |-> NULL,
                       path |-> RemovePath(Mem, key), ret |-> NULL]
           /\ removed' = removed + G2dFreeCalls(m.g2d_freed) - G2dFreeCalls(g2d_freed)
    /\ stored' = [stored EXCEPT ![key] = NULL]
    /\ UNCHANGED handed

FreeBufMap ==
    /\ status = "alive"
    /\ Outcome(lv_free_buf_map(Mem), "destroyed")
    /\ last' = [op |-> "free_buf_map", key |-> NULL, value |-> NULL,
                path |-> "free_buf_map", ret |-> NULL]
    /\ stored' = [k \in Keys |-> NULL]
    /\ UNCHANGED <<handed, removed>>

Next ==
    \/ \E key \in Keys, garbage \in {NULL, WILD} \cup NodeIds : Insert(key, garbage)
    \/ \E key \in Keys : Search(key)
    \/ \E key \in Keys : FreeItem(key)
    \/ FreeBufMap

Spec == Init /\ [][Next]_vars

TypeOK ==
    /\ items \in [Indexes -> [key : Keys \cup {NULL}, value : Values \cup {NULL}]]
    /\ overflow_list \in [Indexes -> {NULL, WILD} \cup NodeIds]
    /\ count \in 0..HASH_TABLE_SIZE
    /\ status \in {"alive", "destroyed", "fault", "hang"}
    /\ handed \in 0..MaxInserts

----------------------------------------------------------------------------
(* What the table holds, read off the state. *)

\* The nodes the links lead to from address p, in link order, up to the
\* first address that is no node or was met before.
RECURSIVE ChainFrom(_, _, _)
ChainFrom(h, p, seen) ==
    IF ~IsNode(p) \/ p \in seen THEN <<>>
    ELSE <<p>> \o ChainFrom(h, h[p].next, seen \cup {p})

\* The chain of bucket i.
Chain(i) == ChainFrom(heap, overflow_list[i], {})

\* Where the entries with key k are: the primary slot and chain positions of
\* k's bucket.
Locations(k) ==
    LET i == _map_hash_function(k)
        c == Chain(i)
    IN  {<<"slot", i>> : x \in {j \in {i} : items[j].key = k}}
        \cup {<<"node", c[j]>> : j \in {n \in 1..Len(c) : heap[c[n]].item.key = k}}

\* The entries reachable from table->items and table->overflow_list.
ReachableEntries ==
    {items[i] : i \in {j \in Indexes : items[j] # NULL_ITEM}}
    \cup UNION {{heap[Chain(i)[j]].item :
                    j \in {n \in 1..Len(Chain(i)) : heap[Chain(i)[n]].item # NULL_ITEM}}
                : i \in Indexes}

StoredKeys == {e.key : e \in ReachableEntries}

\* The keys stored in bucket i.
BucketKeys(i) == {k \in StoredKeys : _map_hash_function(k) = i}

\* The resource a lookup of k has to return: that of the primary slot when
\* its key is k, else that of the first chain node with key k, else NULL.
Lookup(k) ==
    LET i == _map_hash_function(k)
        c == Chain(i)
        hits == {j \in 1..Len(c) : heap[c[j]].item.key = k}
    IN  IF items[i] # NULL_ITEM /\ items[i].key = k THEN items[i].value
        ELSE IF hits = {} THEN NULL
        ELSE heap[c[CHOOSE j \in hits : \A j2 \in hits : j <= j2]].item.value

\* Every chain is made of live nodes and ends at a NULL link: no link was
\* left uninitialised or dangling.
ChainsIntact ==
    \A i \in Indexes :
        LET c == Chain(i)
        IN  /\ c = <<>> => overflow_list[i] = NULL
            /\ c # <<>> => heap[c[Len(c)]].next = NULL
            /\ \A j \in 1..Len(c) : heap[c[j]].st = "live"

\* Number of occupied primary slots.
Occupied == Cardinality({i \in Indexes : items[i] # NULL_ITEM})

\* The table's memory: everything but the record of the calls.
table_mem == <<items, overflow_list, count, heap, key_live, g2d_freed>>

----------------------------------------------------------------------------
(* Claims. *)

\* C1: round trip.  After lv_insert_buf_map(k, r), every lv_search_buf_map(k)
\* returns r until lv_free_item(k) or lv_free_buf_map() is called, also when
\* k's bucket already has another key in its primary slot.
C1_RoundTrip ==
    status = "alive" =>
        \A k \in Keys :
            stored[k] # NULL => lv_search_buf_map(Mem, k).ret = stored[k]

\* C2: exactly-once release.  After lv_free_buf_map() every resource handed
\* to insert has been passed to g2d_free exactly once, and the calls of
\* g2d_free made by lv_free_buf_map number the entries inserted minus those
\* removed one by one.
C2_ExactlyOnceRelease ==
    status = "destroyed" =>
        /\ \A v \in 1..handed : g2d_freed[v] = 1
        /\ G2dFreeCalls(g2d_freed) - removed = handed - removed

\* C3: ownership.  Before destroy, every entry reachable from a primary slot
\* or a chain node has a key allocation that was not passed to lv_free and a
\* resource that was not passed to g2d_free.
C3_Ownership ==
    status = "alive" =>
        \A e \in ReachableEntries : key_live[e.key] /\ g2d_freed[e.value] = 0

\* C4: removal affects only the matching entry.  With three or more keys of
\* one bucket stored, lv_free_item(k) for one of them releases the entry of
\* k and no other, and every other stored key is found afterwards with the
\* resource it had, not released; when k is not stored nothing changes.
\* (Stated for the calls made while every chain is intact.)
C4_RemovalFrame ==
    [][\A k \in Keys :
        (FreeItem(k) /\ ChainsIntact) =>
            /\ (k \in StoredKeys
                    /\ Cardinality(BucketKeys(_map_hash_function(k))) >= 3) =>
                  /\ status' = "alive"
                  /\ k \notin StoredKeys'
                  /\ \A k2 \in StoredKeys \ {k} :
                        /\ (lv_search_buf_map(Mem, k2).ret)' = Lookup(k2)
                        /\ g2d_freed'[Lookup(k2)] = 0
                  /\ \A v \in Values :
                        g2d_freed'[v] = g2d_freed[v] + (IF v = Lookup(k) THEN 1 ELSE 0)
            /\ k \notin StoredKeys => UNCHANGED <<table_mem, status>>
      ]_vars

\* C5: idempotent removal.  Of two calls lv_free_item(k) in a row the second
\* changes neither slots, chains, count nor what has been released, and
\* returns; k is absent after the first.  (Stated for the second calls made
\* while every chain is intact.)
C5_IdempotentRemoval ==
    [][\A k \in Keys :
        (last.op = "free_item" /\ last.key = k /\ FreeItem(k) /\ ChainsIntact) =>
            /\ k \notin StoredKeys
            /\ UNCHANGED <<table_mem, status>>
      ]_vars

\* C6: unique keys.  Each key is the key of at most one entry across the
\* primary slots and the chains.
C6_UniqueKeys ==
    status = "alive" => \A k \in Keys : Cardinality(Locations(k)) <= 1

\* C8: lookup result.  lv_search_buf_map(k) returns the resource of the
\* primary slot when its key is k, else that of the first chain node of the
\* bucket whose key is k, and NULL only when no entry of the bucket has key k.
C8_LookupResult ==
    status = "alive" =>
        \A k \in Keys : lv_search_buf_map(Mem, k).ret = Lookup(k)

\* C9: lookup is read-only.  A call of lv_search_buf_map leaves the slots,
\* the chains and their links, count and the released keys and resources as
\* they were.
C9_SearchReadOnly ==
    [][\A k \in Keys : Search(k) => UNCHANGED table_mem]_vars

\* A search that went past the primary slot to a chain node has returned.
C9_Witness ==
    /\ status = "alive"
    /\ last.op = "search"
    /\ items[_map_hash_function(last.key)] # NULL_ITEM
    /\ items[_map_hash_function(last.key)].key # last.key
    /\ IsNode(overflow_list[_map_hash_function(last.key)])

\* C10: counter.  table->count is the number of occupied primary slots; an
\* insert into an empty slot adds one, the removal of a primary entry without
\* a chain takes one off, and a chained insert, an update and a promotion
\* leave it as it is.
C10_Counter ==
    /\ [](count = Occupied)
    /\ [][/\ last'.path = "place" => count' = count + 1
          /\ last'.path = "primary" => count' = count - 1
          /\ last'.path \in {"collision", "update", "promote"} => count' = count
         ]_vars

\* A promotion has just happened in a bucket that still has a chained entry:
\* one slot is occupied, two entries are stored, count is 1.
C10_Witness ==
    /\ status = "alive"
    /\ last.path = "promote"
    /\ count = 1
    /\ \E i \in Indexes :
          /\ items[i] # NULL_ITEM
          /\ Chain(i) # <<>>
          /\ heap[Chain(i)[1]].item # NULL_ITEM

\* C11: bucket shape.  For every index i, when table->items[i] is empty,
\* table->overflow_list[i] is empty too: no chain under an empty primary slot.
C11_BucketShape ==
    \A i \in Indexes : items[i] = NULL_ITEM => overflow_list[i] = NULL

\* A bucket that had a chain has lost the chain and then its primary entry.
C11_Witness ==
    /\ status = "alive"
    /\ last.path = "primary"
    /\ items[_map_hash_function(last.key)] = NULL_ITEM
    /\ \E n \in NodeIds :
          heap[n].st = "freed" /\ heap[n].next = NULL

\* C12: promotion.  When lv_free_item(k) matches the primary slot of a bucket
\* with a chain, only the removed primary entry's key and resource are
\* released; the chain head's entry becomes the primary entry, its key and
\* resource still owned; the chain becomes the head's successor; of the head
\* node only the wrapper is destroyed; the promoted key is then found with
\* its resource.  (Stated for the calls made while every chain is intact.)
C12_Promotion ==
    [][\A k \in Keys :
        (FreeItem(k) /\ ChainsIntact /\ RemovePath(Mem, k) = "promote") =>
            LET i == _map_hash_function(k)
                old == items[i]
                head == overflow_list[i]
                e == heap[head].item
            IN  /\ status' = "alive"
                /\ items'[i] = e
                /\ overflow_list'[i] = heap[head].next
                /\ heap'[head].st = "freed"
                /\ \A n \in NodeIds \ {head} : heap'[n] = heap[n]
                /\ \A v \in Values :
                      g2d_freed'[v] = g2d_freed[v] + (IF v = old.value THEN 1 ELSE 0)
                /\ \A k2 \in Keys \ {old.key} : key_live'[k2] = key_live[k2]
                /\ (lv_search_buf_map(Mem, e.key).ret)' = e.value
      ]_vars

\* C13: mid-chain removal.  When lv_free_item(k) matches a chain node that
\* is not the chain head, the predecessor's link skips that node afterwards,
\* only that node and its entry are destroyed, every other node stays
\* reachable from overflow_list[idx] in its order, and no link of the chain
\* points to a destroyed node.  (Stated for the calls made while every chain
\* is intact.)
C13_MidChainSplice ==
    [][\A k \in Keys :
        (FreeItem(k) /\ ChainsIntact /\ RemovePath(Mem, k) = "chain") =>
            LET i == _map_hash_function(k)
                c == Chain(i)
                hits == {j \in 1..Len(c) : heap[c[j]].item.key = k}
            IN  (hits # {} /\ 1 \notin hits) =>
                    LET j == CHOOSE x \in hits : \A y \in hits : x <= y
                    IN  /\ status' = "alive"
                        /\ Chain(i)' = SubSeq(c, 1, j - 1) \o SubSeq(c, j + 1, Len(c))
                        /\ heap'[c[j]].st = "freed"
                        /\ \A n \in NodeIds \ {c[j]} :
                              /\ heap'[n].st = heap[n].st
                              /\ heap'[n].item = heap[n].item
                              /\ IsNode(heap'[n].next) => heap'[heap'[n].next].st # "freed"
                        /\ \A v \in Values :
                              g2d_freed'[v] = g2d_freed[v]
                                  + (IF v = heap[c[j]].item.value THEN 1 ELSE 0)
      ]_vars

\* C14: chained insert appends.  When lv_insert_buf_map(k, r) finds the
\* primary slot occupied by another key, the bucket's chain afterwards is the
\* previous chain, every node kept in its order, followed by one new node
\* holding (k, r), whatever the previous length; count and the primary slot
\* are unchanged.  (Stated for the calls that start and end with every chain
\* intact.  A step that adds one to `handed` is a call of lv_insert_buf_map;
\* last' names its key and branch.)
C14_ChainedInsertAppends ==
    [][\A k \in Keys :
        (handed' = handed + 1 /\ last'.key = k /\ last'.path = "collision"
                /\ ChainsIntact /\ ChainsIntact') =>
            LET i == _map_hash_function(k)
                c == Chain(i)
                node == NewNode(Mem)
            IN  /\ status' = "alive"
                /\ Chain(i)' = Append(c, node)
                /\ heap'[node].item = Item(k, handed + 1)
                /\ \A j \in 1..Len(c) :
                      heap'[c[j]].item = heap[c[j]].item /\ heap'[c[j]].st = "live"
                /\ count' = count
                /\ items' = items
      ]_vars

\* C15: update in place.  When lv_insert_buf_map(k, r) finds the primary
\* slot occupied by an entry with key k, that entry's resource becomes r, the
\* previous resource is not released by the call, and count, every other
\* slot and every chain are unchanged.  (A step that adds one to `handed` is a
\* call of lv_insert_buf_map; last' names its key, value and branch.)
C15_UpdateInPlace ==
    [][\A k \in Keys :
        (handed' = handed + 1 /\ last'.key = k /\ last'.path = "update") =>
            LET i == _map_hash_function(k)
            IN  /\ status' = "alive"
                /\ items'[i] = Item(k, handed + 1)
                /\ \A j \in Indexes \ {i} : items'[j] = items[j]
                /\ g2d_freed' = g2d_freed
                /\ count' = count
                /\ overflow_list' = overflow_list
                /\ heap' = heap
      ]_vars

\* An update has replaced the resource of the primary entry of a bucket with
\* a chain; the resource it replaced is held by no entry and was not released.
C15_Witness ==
    /\ status = "alive"
    /\ last.path = "update"
    /\ items[_map_hash_function(last.key)] = Item(last.key, last.value)
    /\ IsNode(overflow_list[_map_hash_function(last.key)])
    /\ \E v \in 1..handed :
          /\ g2d_freed[v] = 0
          /\ \A e \in ReachableEntries : e.value # v

\* C16: head-of-chain removal.  When lv_free_item(k) does not match the
\* primary slot and matches the first node of the bucket's chain, the whole
\* chain from that node on, the matched node and every successor with their
\* entries, is destroyed and overflow_list[idx] is cleared; the primary slot
\* and count are unchanged.
C16_HeadRemoval ==
    [][\A k \in Keys :
        LET i == _map_hash_function(k)
            head == overflow_list[i]
        IN  (FreeItem(k) /\ RemovePath(Mem, k) = "chain"
                /\ IsNode(head) /\ heap[head].item.key = k) =>
                /\ status' = "alive"
                /\ overflow_list'[i] = NULL
                /\ \A j \in 1..Len(Chain(i)) :
                      LET n == Chain(i)[j]
                      IN  /\ heap'[n].st = "freed"
                          /\ g2d_freed'[heap[n].item.value] > g2d_freed[heap[n].item.value]
                /\ items' = items
                /\ count' = count
      ]_vars

\* C17: no partial effects.  Every call of lv_insert_buf_map and lv_free_item
\* completes, and it neither drops a stored entry from reachability without
\* releasing it (but for the resource an update replaces) nor releases an
\* entry that it leaves reachable.  (Stated for the calls made while every
\* chain is intact; last' names the call of the step.)
C17_NoPartialEffects ==
    [][(last'.op \in {"insert", "free_item"} /\ ChainsIntact) =>
            /\ status' = "alive"
            /\ \A e \in ReachableEntries' :
                  g2d_freed'[e.value] = g2d_freed[e.value]
            /\ \A e \in ReachableEntries \ ReachableEntries' :
                  \/ g2d_freed'[e.value] = g2d_freed[e.value] + 1
                  \/ last'.path = "update" /\ e.key = last'.key
      ]_vars

\* C18: the table-full branch of lv_insert_buf_map is unreachable.  Whenever
\* a primary slot is empty, count < size, so no call takes the "Hash Table is
\* full" branch; and an insert into an occupied bucket is not refused when
\* count == size: the offered key and resource are not released, and when
\* the call returns the entry is in the bucket's chain.
C18_FullBranchUnreachable ==
    /\ [](\A i \in Indexes : items[i] = NULL_ITEM => count < HASH_TABLE_SIZE)
    /\ [][last'.path # "full"]_vars
    /\ [][\A k \in Keys :
            (handed' = handed + 1 /\ last'.key = k /\ last'.path = "collision"
                    /\ count = HASH_TABLE_SIZE) =>
                /\ g2d_freed'[handed + 1] = 0
                /\ key_live'[k]
                /\ status' = "alive" => Item(k, handed + 1) \in ReachableEntries'
         ]_vars

\* Every primary slot is occupied, count == size, and the last call chained
\* one more entry.
C18_Witness ==
    /\ status = "alive"
    /\ count = HASH_TABLE_SIZE
    /\ \A i \in Indexes : items[i] # NULL_ITEM
    /\ last.path = "collision"
    /\ Item(last.key, last.value) \in ReachableEntries
    /\ g2d_freed[last.value] = 0

\* C19: every chain is finite and properly terminated.  The node that
\* _handle_collision creates for the first collision of a bucket has an empty
\* next link, so following the links from overflow_list[idx] visits only live
\* nodes made by inserts into that bucket and ends at an empty link.
C19_ChainsTerminated ==
    status = "alive" =>
        /\ ChainsIntact
        /\ \A i \in Indexes :
              \A j \in 1..Len(Chain(i)) :
                  _map_hash_function(heap[Chain(i)[j]].item.key) = i

====
